---- MODULE Spec2Model ----
(***************************************************************************)
(* A model of final_project.py: the scheduling kernel (Task, Node,         *)
(* Scheduler, WorkloadGenerator) and its control / telemetry surface       *)
(* (ws_handler, broadcaster, toggle_recording, run_scenario_logic).        *)
(*                                                                         *)
(* The program is a single asyncio event loop: a coroutine runs without    *)
(* interruption from one await that suspends to the next one.  Every       *)
(* action below is one such run.  Wall-clock time is not modelled: a       *)
(* sleep is a suspension after which the coroutine may resume at any       *)
(* later moment, so work_units, speed and the sleep lengths do not appear. *)
(* A task is represented by its tid.                                       *)
(***************************************************************************)
EXTENDS Integers, Sequences, FiniteSets, TLC

\* ------------------------------------------------------------------ bounds
\* tasks the generator may create in one run of the model
MaxTasks == 2
\* nodes of the fleet (Scheduler(num_nodes=...))
NumNodes == 2
\* the stealing loop stops migrating when the counter reaches this value
MaxMigrations == 2
\* tasks the generator may create under CommandSpec and LiveSpec
SurfaceTasks == 1
\* websocket connections that may exist
MaxClients == 2
\* largest amount handed to steal_tasks under StealSpec
MaxAmount == 3
\* longest node queue StealSpec starts from
MaxLen == 3
\* scenario tasks created by start_scenario that may wait to start
MaxSpawned == 1
\* data rows the broadcaster may write to one csv file
MaxRows == 2
\* largest latency sample, in milliseconds
MaxLatency == 2
\* longest node queue MigrationSpec starts from: long enough for a stealing
\* tick to move more than one task
MaxBacklog == 8

\* ------------------------------------------------------- program constants
BurstSize == 15
MicroBurstSize == 5
StealDivisor == 4
LatencyCap == 5000
LatencyKeep == 2000

Nodes == 0 .. (NumNodes - 1)
Tasks == 0 .. (MaxTasks - 1)
NoTask == -1
Policies == {"round_robin", "least_loaded", "work_stealing"}
DEFAULT_POLICY == "work_stealing"
\* what data.get("val") may yield: a policy name, or "other" for every value
\* that is none (an unknown string, a number, None): the program only ever
\* compares the policy with the three names
PolicyVals == Policies \cup {"other"}
\* node ids a caller may pass: in range and just out of range on both sides
NodeIds == (-1) .. NumNodes

VARIABLES
    \* WorkloadGenerator
    tid, manual_burst,
    \* Scheduler
    task_queue, policy, migrations, latencies,
    \* Scheduler.assign_loop: its local rr_index, the task it holds while it
    \* backs off, and where it is suspended
    rr_index, held, dpc,
    \* Node (one entry per node)
    queue, active, busy, current, completed,
    \* tasks created by kill_node (asyncio.create_task(put)) that did not run yet
    putTasks,
    \* history: how often each task was completed; whether a stealing tick
    \* met an imbalance and moved nothing; placements per node since the policy
    \* or the active set changed
    completions, stalled, placed,
    \* WorkloadGenerator.rate_low / rate_high, in tenths of a second
    rate_low, rate_high,
    \* sim_state: recording, csv_file ("none", "open", "closed"), the rows
    \* written to the current csv_file, (history) the broadcast ticks that
    \* came to their recording step with recording on since that file was
    \* opened, scenario_active
    recording, csv_file, csv_rows, ticks_on, scenario_active,
    \* run_scenario_logic: tasks created by start_scenario that did not start
    \* yet, and the await at which the running scenario is suspended (0: none)
    spawned, scn,
    \* for each of those tasks, oldest first: whether scenario_active was true
    \* when its start_scenario command was handled (history), and whether the
    \* running scenario has woken since (a created task runs in the next pass
    \* of the event loop: only a wake-up that was already due runs before it)
    late,
    \* the websockets whose ws_handler is running, and the subscriber set
    conns, clients,
    \* broadcaster: where it is ("sleep", "send", "crashed"), the client whose
    \* send it awaits, the clients the iteration over the set has still to
    \* reach, the set size the iterator saw when it was made, its local dead
    \* set, and (history) the clients that received this tick's snapshot
    bpc, sending, todo, iter_used, dead, sent,
    \* the steal_tasks call made by StealCall: node, amount, the queue before
    \* and the tasks returned
    call

kernelVars == <<tid, manual_burst, task_queue, policy, migrations, latencies,
                rr_index, held, dpc, queue, active, busy, current, completed,
                putTasks, completions, stalled, placed>>

controlVars == <<rate_low, rate_high, recording, csv_file, csv_rows, ticks_on, scenario_active,
                 spawned, scn, late>>

publisherVars == <<conns, clients, bpc, sending, todo, iter_used, dead, sent>>

surfaceVars == <<controlVars, publisherVars>>

vars == <<kernelVars, surfaceVars, call>>

\* ----------------------------------------------------------------- helpers
Min(a, b) == IF a <= b THEN a ELSE b
Max(a, b) == IF a >= b THEN a ELSE b

RECURSIVE Gcd(_, _)
Gcd(a, b) == IF b = 0 THEN a ELSE Gcd(b, a % b)

RECURSIVE LcmUpTo(_)
LcmUpTo(n) == IF n <= 1 THEN 1 ELSE LET l == LcmUpTo(n - 1) IN (l * n) \div Gcd(l, n)

\* rr_index is only ever read modulo len(active_nodes), which lies in
\* 1..NumNodes, so it is kept modulo the least common multiple of those.
RRPeriod == LcmUpTo(NumNodes)

Range(s) == {s[i] : i \in 1 .. Len(s)}

\* the elements of the set S of integers, in ascending order
RECURSIVE SortedSeq(_)
SortedSeq(S) ==
    IF S = {} THEN <<>>
    ELSE LET m == CHOOSE x \in S : \A y \in S : x <= y
         IN <<m>> \o SortedSeq(S \ {m})

\* [n for n in self.nodes if n.active], in fleet order
ActiveNodes == SortedSeq({n \in Nodes : active[n]})

\* [n for n in active_nodes if n.queue_len() == 0]
IdleNodes == SortedSeq({n \in Nodes : active[n] /\ Len(queue[n]) = 0})

\* min(active_nodes, key=queue_len): the first minimal element in list order
RECURSIVE MinBy(_, _, _)
MinBy(ns, i, best) ==
    IF i > Len(ns) THEN best
    ELSE MinBy(ns, i + 1, IF Len(queue[ns[i]]) < Len(queue[best]) THEN ns[i] ELSE best)

\* mutant: ties go to the last minimal node of the list
RECURSIVE MinByLast(_, _, _)
MinByLast(ns, i, best) ==
    IF i > Len(ns) THEN best
    ELSE MinByLast(ns, i + 1, IF Len(queue[ns[i]]) <= Len(queue[best]) THEN ns[i] ELSE best)

LeastLoadedLast(ns) == MinByLast(ns, 2, ns[1])

LeastLoaded(ns) == MinBy(ns, 2, ns[1])

\* max(active_nodes, key=queue_len): the first maximal element in list order
RECURSIVE MaxBy(_, _, _)
MaxBy(ns, i, best) ==
    IF i > Len(ns) THEN best
    ELSE MaxBy(ns, i + 1, IF Len(queue[ns[i]]) > Len(queue[best]) THEN ns[i] ELSE best)

Busiest(ns) == MaxBy(ns, 2, ns[1])

\* ------------------------------------------------------------------- Node
\* Node.push: append when active, drop silently otherwise
Push(q, act, t) == IF act THEN Append(q, t) ELSE q

\* the loop of Node.steal_tasks: count times queue.pop() from the back
RECURSIVE PopBack(_, _, _)
PopBack(q, stolen, count) ==
    IF count = 0 THEN <<stolen, q>>
    ELSE PopBack(SubSeq(q, 1, Len(q) - 1), Append(stolen, q[Len(q)]), count - 1)

\* mutant: the stolen tasks are returned but stay in the victim's queue
StealTasksCopy(q, act, amount) ==
    IF ~act THEN <<<<>>, q>>
    ELSE <<PopBack(q, <<>>, Min(amount, Max(0, Len(q) - 1)))[1], q>>

\* mutant: nothing is left behind
StealTasksAll(q, act, amount) ==
    IF ~act THEN <<<<>>, q>>
    ELSE PopBack(q, <<>>, Min(amount, Len(q)))

\* Node.steal_tasks(amount): <<stolen, the queue left>>
StealTasks(q, act, amount) ==
    IF ~act THEN <<<<>>, q>>
    ELSE PopBack(q, <<>>, Min(amount, Max(0, Len(q) - 1)))

\* Scheduler.report_completion on the length of self.latencies
ReportCompletion(n) == IF n + 1 > LatencyCap THEN LatencyKeep ELSE n + 1

\* the dispatcher is between two awaits that do not suspend: nothing else runs
Draining == dpc = "drain"

ZeroPlaced == [n \in Nodes |-> 0]

\* Scheduler(num_nodes, policy) and WorkloadGenerator(scheduler)
KernelInit ==
    /\ tid = 0
    /\ manual_burst = FALSE
    /\ task_queue = <<>>
    /\ policy = DEFAULT_POLICY
    /\ migrations = 0
    /\ latencies = 0
    /\ rr_index = 0
    /\ held = NoTask
    /\ dpc = "get"
    /\ queue = [n \in Nodes |-> <<>>]
    /\ active = [n \in Nodes |-> TRUE]
    /\ busy = [n \in Nodes |-> FALSE]
    /\ current = [n \in Nodes |-> NoTask]
    /\ completed = [n \in Nodes |-> 0]
    /\ putTasks = <<>>
    /\ completions = [t \in Tasks |-> 0]
    /\ stalled = FALSE
    /\ placed = ZeroPlaced

\* ------------------------------------------------------ WorkloadGenerator
\* count calls of create_task in a row (no call suspends: the ingest queue is
\* unbounded), cut off at the model's bound on tasks
CreateTasks(count, max) ==
    LET k == Min(count, max - tid)
    IN /\ tid < max
       /\ task_queue' = task_queue \o [i \in 1 .. k |-> tid + i - 1]
       /\ tid' = tid + k

\* WorkloadGenerator.start, the manual_burst branch
GenBurst(max) ==
    /\ ~Draining
    /\ manual_burst
    /\ CreateTasks(BurstSize, max)
    /\ manual_burst' = FALSE
    /\ UNCHANGED <<policy, migrations, latencies, rr_index, held, dpc, queue, active,
                   busy, current, completed, putTasks, completions, stalled, placed>>

\* WorkloadGenerator.start, random traffic: five tasks or one
GenTraffic(max) ==
    /\ ~Draining
    /\ ~manual_burst
    /\ \E count \in {MicroBurstSize, 1} : CreateTasks(count, max)
    /\ UNCHANGED <<manual_burst, policy, migrations, latencies, rr_index, held, dpc,
                   queue, active, busy, current, completed, putTasks, completions,
                   stalled, placed>>

\* WorkloadGenerator.trigger_burst
TriggerBurst ==
    /\ ~Draining
    /\ manual_burst' = TRUE
    /\ UNCHANGED <<tid, task_queue, policy, migrations, latencies, rr_index, held, dpc,
                   queue, active, busy, current, completed, putTasks, completions,
                   stalled, placed>>

\* ---------------------------------------------------- Scheduler.assign_loop
\* mutant: the target is chosen among all nodes, active or not
TargetAnyNode ==
    IF policy = "round_robin" THEN SortedSeq(Nodes)[(rr_index % NumNodes) + 1]
    ELSE IF policy \in {"least_loaded", "work_stealing"} THEN LeastLoaded(SortedSeq(Nodes))
    ELSE 0

\* mutant: round_robin ignores its index
TargetFirst ==
    IF policy \in {"least_loaded", "work_stealing"} THEN LeastLoaded(ActiveNodes)
    ELSE ActiveNodes[1]

\* the target the placement policy selects among the active nodes
Target ==
    IF policy = "round_robin" THEN ActiveNodes[(rr_index % Len(ActiveNodes)) + 1]
    ELSE IF policy \in {"least_loaded", "work_stealing"} THEN LeastLoaded(ActiveNodes)
    ELSE ActiveNodes[1]

\* one pass of the loop that ends in target.push(task)
DispatchPlace ==
    /\ dpc \in {"get", "drain"}
    /\ task_queue # <<>>
    /\ ActiveNodes # <<>>
    /\ LET t == Head(task_queue)
           n == Target
       IN /\ queue' = [queue EXCEPT ![n] = Push(queue[n], active[n], t)]
          /\ placed' = IF policy = "round_robin"
                       THEN [placed EXCEPT ![n] = placed[n] + 1] ELSE placed
    /\ task_queue' = Tail(task_queue)
    /\ rr_index' = IF policy = "round_robin" THEN (rr_index + 1) % RRPeriod ELSE rr_index
    /\ dpc' = IF Tail(task_queue) = <<>> THEN "get" ELSE "drain"
    /\ UNCHANGED <<tid, manual_burst, policy, migrations, latencies, held, active, busy,
                   current, completed, putTasks, completions, stalled>>

\* one pass of the loop that finds no active node: keep the task, sleep(1)
DispatchHold ==
    /\ dpc \in {"get", "drain"}
    /\ task_queue # <<>>
    /\ ActiveNodes = <<>>
    /\ held' = Head(task_queue)
    /\ task_queue' = Tail(task_queue)
    /\ dpc' = "backoff"
    /\ UNCHANGED <<tid, manual_burst, policy, migrations, latencies, rr_index, queue,
                   active, busy, current, completed, putTasks, completions, stalled, placed>>

\* mutant: after the sleep the task is not put back
DispatchResubmitDrop ==
    /\ dpc = "backoff"
    /\ held' = NoTask
    /\ dpc' = "get"
    /\ UNCHANGED <<tid, manual_burst, task_queue, policy, migrations, latencies,
                   rr_index, queue, active, busy, current, completed, putTasks,
                   completions, stalled, placed>>

\* after the sleep: put the task back; the next get() finds the queue
\* non-empty and does not suspend
DispatchResubmit ==
    /\ dpc = "backoff"
    /\ task_queue' = Append(task_queue, held)
    /\ held' = NoTask
    /\ dpc' = "drain"
    /\ UNCHANGED <<tid, manual_burst, policy, migrations, latencies, rr_index, queue,
                   active, busy, current, completed, putTasks, completions, stalled, placed>>

\* ---------------------------------------------------------------- Node.run
\* mutant: the node takes the task at the back of its queue
NodeStartLifo(n) ==
    /\ ~Draining
    /\ active[n]
    /\ current[n] = NoTask
    /\ queue[n] # <<>>
    /\ current' = [current EXCEPT ![n] = queue[n][Len(queue[n])]]
    /\ queue' = [queue EXCEPT ![n] = SubSeq(queue[n], 1, Len(queue[n]) - 1)]
    /\ busy' = [busy EXCEPT ![n] = TRUE]
    /\ UNCHANGED <<tid, manual_burst, task_queue, policy, migrations, latencies,
                   rr_index, held, dpc, active, completed, putTasks, completions,
                   stalled, placed>>

\* pop the front task and start the simulated work
NodeStart(n) ==
    /\ ~Draining
    /\ active[n]
    /\ current[n] = NoTask
    /\ queue[n] # <<>>
    /\ current' = [current EXCEPT ![n] = Head(queue[n])]
    /\ queue' = [queue EXCEPT ![n] = Tail(queue[n])]
    /\ busy' = [busy EXCEPT ![n] = TRUE]
    /\ UNCHANGED <<tid, manual_burst, task_queue, policy, migrations, latencies,
                   rr_index, held, dpc, active, completed, putTasks, completions,
                   stalled, placed>>

\* the work is over: stamp, count, report
NodeFinish(n) ==
    /\ ~Draining
    /\ current[n] # NoTask
    /\ completions' = [completions EXCEPT ![current[n]] = @ + 1]
    /\ completed' = [completed EXCEPT ![n] = @ + 1]
    /\ busy' = [busy EXCEPT ![n] = FALSE]
    /\ current' = [current EXCEPT ![n] = NoTask]
    /\ latencies' = ReportCompletion(latencies)
    /\ UNCHANGED <<tid, manual_burst, task_queue, policy, migrations, rr_index, held,
                   dpc, queue, active, putTasks, stalled, placed>>

\* --------------------------------------------- Scheduler.work_stealing_loop
\* for i, task in enumerate(stolen): idle_nodes[i % len(idle_nodes)].push(task)
RECURSIVE Distribute(_, _, _, _)
Distribute(qs, stolen, idle, i) ==
    IF i > Len(stolen) THEN qs
    ELSE LET n == idle[((i - 1) % Len(idle)) + 1]
         IN Distribute([qs EXCEPT ![n] = Push(qs[n], active[n], stolen[i])],
                       stolen, idle, i + 1)

\* mutant: without the floor of 1
StealAmountNoFloor(len) == len \div StealDivisor

\* max(1, busiest.queue_len() // 4)
StealAmount(len) == Max(1, len \div StealDivisor)

\* some active node has more than one queued task while another active node
\* has none
Imbalance ==
    \E b, i \in Nodes :
        active[b] /\ active[i] /\ Len(queue[b]) > 1 /\ Len(queue[i]) = 0

\* the guard of one rebalancing
CanSteal ==
    /\ IdleNodes # <<>>
    /\ ActiveNodes # <<>>
    /\ Len(queue[Busiest(ActiveNodes)]) > 1

\* the queues after one rebalancing, and the tasks it moved
Rebalance ==
    LET b == Busiest(ActiveNodes)
        r == StealTasks(queue[b], active[b], StealAmount(Len(queue[b])))
    IN <<Distribute([queue EXCEPT ![b] = r[2]], r[1], IdleNodes, 1), r[1]>>

\* mutant: a rebalancing counts as one migration however many tasks it moves
StealTickCountsOne ==
    /\ ~Draining
    /\ migrations < MaxMigrations
    /\ IF policy = "work_stealing" /\ CanSteal /\ Rebalance[2] # <<>>
       THEN /\ queue' = Rebalance[1]
            /\ migrations' = migrations + 1
            /\ UNCHANGED stalled
       ELSE /\ UNCHANGED <<queue, migrations>>
            /\ stalled' = (stalled \/ (policy = "work_stealing" /\ Imbalance))
    /\ UNCHANGED <<tid, manual_burst, task_queue, policy, latencies, rr_index, held,
                   dpc, active, busy, current, completed, putTasks, completions, placed>>

\* one wake-up of the loop after sleep(0.25)
StealTick ==
    /\ ~Draining
    /\ migrations < MaxMigrations
    /\ IF policy = "work_stealing" /\ CanSteal /\ Rebalance[2] # <<>>
       THEN /\ queue' = Rebalance[1]
            /\ migrations' = migrations + Len(Rebalance[2])
            /\ UNCHANGED stalled
       ELSE /\ UNCHANGED <<queue, migrations>>
            /\ stalled' = (stalled \/ (policy = "work_stealing" /\ Imbalance))
    /\ UNCHANGED <<tid, manual_burst, task_queue, policy, latencies, rr_index, held,
                   dpc, active, busy, current, completed, putTasks, completions, placed>>

\* ------------------------------------------------- Scheduler: the mutators
\* mutant: the drained tasks are not put back
kill_node_drop(nid) ==
    /\ ~Draining
    /\ IF nid \in Nodes
       THEN /\ active' = [active EXCEPT ![nid] = FALSE]
            /\ queue' = [queue EXCEPT ![nid] = <<>>]
            /\ placed' = IF active[nid] THEN ZeroPlaced ELSE placed
            /\ UNCHANGED putTasks
       ELSE UNCHANGED <<active, queue, putTasks, placed>>
    /\ UNCHANGED <<tid, manual_burst, task_queue, policy, migrations, latencies,
                   rr_index, held, dpc, busy, current, completed, completions, stalled>>

\* mutant: the queue is put back but not cleared
kill_node_keep(nid) ==
    /\ ~Draining
    /\ IF nid \in Nodes
       THEN /\ active' = [active EXCEPT ![nid] = FALSE]
            /\ putTasks' = putTasks \o queue[nid]
            /\ placed' = IF active[nid] THEN ZeroPlaced ELSE placed
            /\ UNCHANGED queue
       ELSE UNCHANGED <<active, queue, putTasks, placed>>
    /\ UNCHANGED <<tid, manual_burst, task_queue, policy, migrations, latencies,
                   rr_index, held, dpc, busy, current, completed, completions, stalled>>

\* mutant: the task in service is cancelled and put back with the queue
kill_node_cancel(nid) ==
    /\ ~Draining
    /\ IF nid \in Nodes
       THEN /\ active' = [active EXCEPT ![nid] = FALSE]
            /\ queue' = [queue EXCEPT ![nid] = <<>>]
            /\ putTasks' = putTasks \o queue[nid]
                             \o (IF current[nid] # NoTask THEN <<current[nid]>> ELSE <<>>)
            /\ current' = [current EXCEPT ![nid] = NoTask]
            /\ busy' = [busy EXCEPT ![nid] = FALSE]
            /\ placed' = IF active[nid] THEN ZeroPlaced ELSE placed
       ELSE UNCHANGED <<active, queue, putTasks, placed, current, busy>>
    /\ UNCHANGED <<tid, manual_burst, task_queue, policy, migrations, latencies,
                   rr_index, held, dpc, completed, completions, stalled>>

\* Scheduler.kill_node: the node goes inactive, its queue is cleared and one
\* task per drained task is created to put it back into the ingest queue
kill_node(nid) ==
    /\ ~Draining
    /\ IF nid \in Nodes
       THEN /\ active' = [active EXCEPT ![nid] = FALSE]
            /\ queue' = [queue EXCEPT ![nid] = <<>>]
            /\ putTasks' = putTasks \o queue[nid]
            /\ placed' = IF active[nid] THEN ZeroPlaced ELSE placed
       ELSE UNCHANGED <<active, queue, putTasks, placed>>
    /\ UNCHANGED <<tid, manual_burst, task_queue, policy, migrations, latencies,
                   rr_index, held, dpc, busy, current, completed, completions, stalled>>

\* one of the tasks kill_node created runs: task_queue.put(t)
PutStep ==
    /\ ~Draining
    /\ putTasks # <<>>
    /\ task_queue' = Append(task_queue, Head(putTasks))
    /\ putTasks' = Tail(putTasks)
    /\ UNCHANGED <<tid, manual_burst, policy, migrations, latencies, rr_index, held,
                   dpc, queue, active, busy, current, completed, completions, stalled,
                   placed>>

\* Scheduler.revive_node
revive_node(nid) ==
    /\ ~Draining
    /\ IF nid \in Nodes
       THEN /\ active' = [active EXCEPT ![nid] = TRUE]
            /\ placed' = IF active[nid] THEN placed ELSE ZeroPlaced
       ELSE UNCHANGED <<active, placed>>
    /\ UNCHANGED <<tid, manual_burst, task_queue, policy, migrations, latencies,
                   rr_index, held, dpc, queue, busy, current, completed, putTasks,
                   completions, stalled>>

\* scheduler.policy = val (ws_handler, run_scenario_logic)
SetPolicy(val) ==
    /\ ~Draining
    /\ policy' = val
    /\ placed' = IF val = policy THEN placed ELSE ZeroPlaced
    /\ UNCHANGED <<tid, manual_burst, task_queue, migrations, latencies, rr_index,
                   held, dpc, queue, active, busy, current, completed, putTasks,
                   completions, stalled>>

\* ----------------------------------------------------- WorkloadGenerator
DefaultLow == 3
DefaultHigh == 8

\* SimState(), clients = set(), and the broadcaster before its first tick
SurfaceInit ==
    /\ rate_low = DefaultLow
    /\ rate_high = DefaultHigh
    /\ recording = FALSE
    /\ csv_file = "none"
    /\ csv_rows = <<>>
    /\ ticks_on = 0
    /\ scenario_active = FALSE
    /\ spawned = 0
    /\ scn = 0
    /\ late = <<>>
    /\ conns = {}
    /\ clients = {}
    /\ bpc = "sleep"
    /\ sending = 0
    /\ todo = {}
    /\ iter_used = 0
    /\ dead = {}
    /\ sent = {}

\* ------------------------------------------------------ toggle_recording
ToggleRecording ==
    /\ IF ~recording
       THEN /\ csv_file' = "open"
            /\ csv_rows' = <<"header">>
            /\ ticks_on' = 0
            /\ recording' = TRUE
       ELSE /\ csv_file' = IF csv_file # "none" THEN "closed" ELSE csv_file
            /\ recording' = FALSE
            /\ UNCHANGED <<csv_rows, ticks_on>>
    /\ UNCHANGED <<rate_low, rate_high, scenario_active, spawned, scn, late>>

\* WorkloadGenerator.set_rate
SetRate(low, high) ==
    /\ rate_low' = low
    /\ rate_high' = high
    /\ UNCHANGED <<recording, csv_file, csv_rows, ticks_on, scenario_active, spawned, scn, late>>

\* asyncio.create_task(run_scenario_logic(...))
SpawnScenario ==
    /\ spawned < MaxSpawned
    /\ spawned' = spawned + 1
    /\ late' = Append(late, [active |-> scenario_active, passed |-> FALSE])
    /\ UNCHANGED <<rate_low, rate_high, recording, csv_file, csv_rows, ticks_on, scenario_active,
                   scn>>

\* ------------------------------------------------------------- ws_handler
Clients == 1 .. MaxClients

Cmds == {"burst", "policy", "kill", "revive", "toggle_record", "start_scenario",
         "hello", "download", "set_rate", "unknown", "None"}

\* a message: json is FALSE for a text json.loads rejects (or that is no
\* object); cmd is "None" when the key is missing; val is what
\* data.get("val") yields; has_id is FALSE when int(data.get("id")) raises
\* (missing or not a number); nums is FALSE when float() of low or high raises
Frame(json, cmd, val, has_id, id, nums, low, high) ==
    [json |-> json, cmd |-> cmd, val |-> val, has_id |-> has_id, id |-> id,
     nums |-> nums, low |-> low, high |-> high]

Plain(cmd) == Frame(TRUE, cmd, "other", FALSE, 0, TRUE, DefaultLow, DefaultHigh)

Frames ==
    {Frame(FALSE, "None", "other", FALSE, 0, TRUE, DefaultLow, DefaultHigh)}
    \cup {Plain(cmd) : cmd \in Cmds \ {"policy", "kill", "revive", "set_rate"}}
    \cup {Frame(TRUE, "policy", v, FALSE, 0, TRUE, DefaultLow, DefaultHigh) : v \in PolicyVals}
    \cup {Frame(TRUE, cmd, "other", TRUE, i, TRUE, DefaultLow, DefaultHigh) :
            cmd \in {"kill", "revive"}, i \in NodeIds}
    \cup {Plain(cmd) : cmd \in {"kill", "revive"}}
    \cup {Frame(TRUE, "set_rate", "other", FALSE, 0, TRUE, DefaultLow, DefaultHigh),
          Frame(TRUE, "set_rate", "other", FALSE, 0, TRUE, 2, 5)}
    \cup {Frame(TRUE, "set_rate", "other", FALSE, 0, FALSE, DefaultLow, DefaultHigh)}

\* the handling of the message raises an exception
Raises(f) ==
    \/ ~f.json
    \/ f.cmd \in {"kill", "revive"} /\ ~f.has_id
    \/ f.cmd = "set_rate" /\ ~f.nums

\* the process runs: the broadcaster, which main awaits, has not raised
Alive == bpc # "crashed"

\* a websocket connects: ws_handler starts with clients.add(ws).  An element
\* added while the broadcaster iterates over the set may or may not be
\* reached by that iteration.
Connect(c) ==
    /\ ~Draining /\ Alive
    /\ c \notin conns \cup clients \cup dead \cup todo
    /\ ~(bpc = "send" /\ sending = c)
    /\ conns' = conns \cup {c}
    /\ clients' = clients \cup {c}
    /\ IF bpc = "send" THEN todo' \in {todo, todo \cup {c}} ELSE UNCHANGED todo
    /\ UNCHANGED <<kernelVars, controlVars, bpc, sending, iter_used, dead, sent, call>>

\* the handler leaves: finally: clients.remove(ws) (a KeyError there ends
\* only the handler)
Leave(c) ==
    /\ conns' = conns \ {c}
    /\ clients' = clients \ {c}
    /\ todo' = todo \ {c}
    /\ UNCHANGED <<bpc, sending, iter_used, dead, sent>>

\* the connection closes: async for message in ws ends
Disconnect(c) ==
    /\ ~Draining /\ Alive
    /\ c \in conns
    /\ Leave(c)
    /\ UNCHANGED <<kernelVars, controlVars, call>>

\* ws_handler on one message f of connection c
WsMessage(c, f) ==
    /\ ~Draining /\ Alive
    /\ c \in conns
    /\ IF Raises(f)
       THEN Leave(c) /\ UNCHANGED <<kernelVars, controlVars>>
       ELSE /\ UNCHANGED publisherVars
            /\ CASE f.cmd = "burst" -> TriggerBurst /\ UNCHANGED controlVars
                 [] f.cmd = "policy" -> SetPolicy(f.val) /\ UNCHANGED controlVars
                 [] f.cmd = "kill" -> kill_node(f.id) /\ UNCHANGED controlVars
                 [] f.cmd = "revive" -> revive_node(f.id) /\ UNCHANGED controlVars
                 [] f.cmd = "toggle_record" -> ToggleRecording /\ UNCHANGED kernelVars
                 [] f.cmd = "start_scenario" -> SpawnScenario /\ UNCHANGED kernelVars
                 [] f.cmd = "set_rate" -> SetRate(f.low, f.high) /\ UNCHANGED kernelVars
                 [] OTHER -> UNCHANGED <<kernelVars, controlVars>>
    /\ UNCHANGED call

\* ----------------------------------------------------- run_scenario_logic
\* a created scenario task starts: it returns at once when a scenario is
\* active, else it takes the flag, sets least_loaded and sleeps
ScenarioBegin ==
    /\ Alive
    /\ spawned > 0
    /\ spawned' = spawned - 1
    /\ late' = Tail(late)
    /\ IF scenario_active
       THEN UNCHANGED <<kernelVars, scenario_active, scn>>
       ELSE /\ scenario_active' = TRUE
            /\ scn' = 1
            /\ SetPolicy("least_loaded")
    /\ UNCHANGED <<rate_low, rate_high, recording, csv_file, csv_rows, ticks_on, publisherVars,
                   call>>

\* mutant: the recovery step does not revive node 0
ScenarioStepNoRevive ==
    /\ Alive
    /\ scn > 0
    /\ \A i \in 1 .. Len(late) : ~late[i].passed
    /\ late' = [i \in 1 .. Len(late) |-> [late[i] EXCEPT !.passed = TRUE]]
    /\ CASE scn = 1 -> TriggerBurst /\ scn' = 2 /\ UNCHANGED scenario_active
         [] scn = 2 -> kill_node(0) /\ scn' = 3 /\ UNCHANGED scenario_active
         [] scn = 3 -> ~Draining /\ scn' = 4 /\ UNCHANGED <<kernelVars, scenario_active>>
         [] OTHER -> SetPolicy("work_stealing") /\ scn' = 0 /\ scenario_active' = FALSE
    /\ UNCHANGED <<rate_low, rate_high, recording, csv_file, csv_rows, ticks_on, spawned,
                   publisherVars, call>>

\* the running scenario wakes from its sleep and does its next step
ScenarioStep ==
    /\ Alive
    /\ scn > 0
    /\ \A i \in 1 .. Len(late) : ~late[i].passed
    /\ late' = [i \in 1 .. Len(late) |-> [late[i] EXCEPT !.passed = TRUE]]
    /\ CASE scn = 1 -> TriggerBurst /\ scn' = 2 /\ UNCHANGED scenario_active
         [] scn = 2 -> kill_node(0) /\ scn' = 3 /\ UNCHANGED scenario_active
         [] scn = 3 -> revive_node(0) /\ scn' = 4 /\ UNCHANGED scenario_active
         [] OTHER -> SetPolicy("work_stealing") /\ scn' = 0 /\ scenario_active' = FALSE
    /\ UNCHANGED <<rate_low, rate_high, recording, csv_file, csv_rows, ticks_on, spawned,
                   publisherVars, call>>

\* ------------------------------------------------------------ broadcaster
\* mutant: the row is written whether recording is on or not
WriteRowAlways ==
    /\ ticks_on' = IF recording THEN ticks_on + 1 ELSE ticks_on
    /\ IF csv_file # "none"
       THEN Len(csv_rows) <= MaxRows /\ csv_rows' = Append(csv_rows, "row")
       ELSE UNCHANGED csv_rows
    /\ UNCHANGED <<rate_low, rate_high, recording, csv_file, scenario_active, spawned,
                   scn, late>>

\* the end of a tick: the csv row, then sleep(0.15)
WriteRow ==
    /\ ticks_on' = IF recording THEN ticks_on + 1 ELSE ticks_on
    /\ IF recording /\ csv_file # "none"
       THEN Len(csv_rows) <= MaxRows /\ csv_rows' = Append(csv_rows, "row")
       ELSE UNCHANGED csv_rows
    /\ UNCHANGED <<rate_low, rate_high, recording, csv_file, scenario_active, spawned,
                   scn, late>>

\* the broadcaster wakes: snapshot, then the first send of the fan-out (or,
\* with no client, the rest of the tick)
BcastTick ==
    /\ ~Draining
    /\ bpc = "sleep"
    /\ IF clients = {}
       THEN WriteRow /\ UNCHANGED publisherVars
       ELSE /\ \E c \in clients :
                 /\ sending' = c
                 /\ todo' = clients \ {c}
            /\ bpc' = "send"
            /\ iter_used' = Cardinality(clients)
            /\ UNCHANGED <<conns, clients, dead, sent, controlVars>>
    /\ UNCHANGED <<kernelVars, call>>

\* the awaited send returns (ok) or raises (~ok); then the for loop asks the
\* set iterator for the next client, which raises RuntimeError when the set
\* changed size; after the loop: for c in dead: clients.remove(c), which
\* raises KeyError for a client that is no longer in the set
BcastSendDone(ok) ==
    /\ ~Draining
    /\ bpc = "send"
    /\ LET nowDead == IF ok THEN dead ELSE dead \cup {sending}
           nowSent == IF ok THEN sent \cup {sending} ELSE sent
       IN IF Cardinality(clients) # iter_used
          THEN /\ bpc' = "crashed"
               /\ dead' = nowDead
               /\ sent' = nowSent
               /\ UNCHANGED <<conns, clients, sending, todo, iter_used, controlVars>>
          ELSE IF todo # {}
          THEN /\ \E c \in todo :
                    /\ sending' = c
                    /\ todo' = todo \ {c}
               /\ dead' = nowDead
               /\ sent' = nowSent
               /\ UNCHANGED <<conns, clients, bpc, iter_used, controlVars>>
          ELSE IF nowDead \subseteq clients
          THEN /\ clients' = clients \ nowDead
               /\ bpc' = "sleep"
               /\ sending' = 0
               /\ iter_used' = 0
               /\ dead' = {}
               /\ sent' = {}
               /\ WriteRow
               /\ UNCHANGED <<conns, todo>>
          ELSE /\ \E gone \in SUBSET (nowDead \cap clients) : clients' = clients \ gone
               /\ bpc' = "crashed"
               /\ dead' = nowDead
               /\ sent' = nowSent
               /\ UNCHANGED <<conns, sending, todo, iter_used, controlVars>>
    /\ UNCHANGED <<kernelVars, call>>

NoCall == [node |-> 0, amount |-> 0, before |-> <<>>, stolen |-> <<>>, made |-> FALSE]

Init == KernelInit /\ SurfaceInit /\ call = NoCall

\* ------------------------------------------------------------ the kernel
\* the scheduler, its nodes and the generator, with the scheduler's mutators
\* called in any order
Quiet == UNCHANGED <<surfaceVars, call>>

Next ==
    \/ GenBurst(MaxTasks) /\ Quiet
    \/ GenTraffic(MaxTasks) /\ Quiet
    \/ TriggerBurst /\ Quiet
    \/ DispatchPlace /\ Quiet
    \/ DispatchHold /\ Quiet
    \/ DispatchResubmit /\ Quiet
    \/ \E n \in Nodes : NodeStart(n) /\ Quiet
    \/ \E n \in Nodes : NodeFinish(n) /\ Quiet
    \/ StealTick /\ Quiet
    \/ PutStep /\ Quiet
    \/ \E nid \in NodeIds : kill_node(nid) /\ Quiet
    \/ \E nid \in NodeIds : revive_node(nid) /\ Quiet
    \/ \E val \in PolicyVals : SetPolicy(val) /\ Quiet

Spec == Init /\ [][Next]_vars

\* the kernel with node failures and recoveries as the only operator
\* commands: the policy stays the one the program starts with
FailureNext ==
    \/ GenTraffic(MaxTasks) /\ Quiet
    \/ DispatchPlace /\ Quiet
    \/ DispatchHold /\ Quiet
    \/ DispatchResubmit /\ Quiet
    \/ \E n \in Nodes : NodeStart(n) /\ Quiet
    \/ \E n \in Nodes : NodeFinish(n) /\ Quiet
    \/ StealTick /\ Quiet
    \/ PutStep /\ Quiet
    \/ \E nid \in NodeIds : kill_node(nid) /\ Quiet
    \/ \E nid \in NodeIds : revive_node(nid) /\ Quiet

\* the scheduling a running event loop gives: a task made by create_task
\* runs (the ready queue is first in, first out), and the dispatcher goes on
\* whenever it can
FairSpec ==
    /\ Init
    /\ [][FailureNext]_vars
    /\ SF_vars(PutStep /\ Quiet)
    /\ WF_vars((DispatchPlace \/ DispatchHold \/ DispatchResubmit) /\ Quiet)

\* ------------------------------------------------------------- accounting
RECURSIVE SumOver(_, _)
SumOver(f, S) ==
    IF S = {} THEN 0
    ELSE LET x == CHOOSE y \in S : TRUE IN f[x] + SumOver(f, S \ {x})

\* how often t occurs in the sequence s
Count(s, t) == Cardinality({i \in 1 .. Len(s) : s[i] = t})

InIngest == Len(task_queue)
InNodeQueues == SumOver([n \in Nodes |-> Len(queue[n])], Nodes)
InService == Cardinality({n \in Nodes : current[n] # NoTask})
Completed == SumOver(completed, Nodes)
HeldByDispatcher == IF held # NoTask THEN 1 ELSE 0
AwaitingPut == Len(putTasks)

\* the places where task t is: ingest queue, node queues, in service, in the
\* dispatcher's hand, in a put that did not run yet
Places(t) ==
    Count(task_queue, t) + SumOver([n \in Nodes |-> Count(queue[n], t)], Nodes)
    + Cardinality({n \in Nodes : current[n] = t})
    + (IF held = t THEN 1 ELSE 0) + Count(putTasks, t)

\* ---------------------------------------------------------------------- C1
\* C1 as stated: in every reachable state the number of tasks submitted
\* equals the number in the ingest queue plus the number in all node queues
\* plus the number in service plus the number completed.
C1_Conservation_AsStated ==
    tid = InIngest + InNodeQueues + InService + Completed

\* C1 as amended: the tasks submitted are those in the ingest queue, in the
\* node queues, in service and completed, together with the task the
\* dispatcher holds while it backs off with no active node and the tasks
\* kill_node drained whose put did not run yet; every submitted task is in
\* one of these places or completed (none is lost), and no task that was not
\* submitted is anywhere.
C1_Conservation ==
    /\ tid = InIngest + InNodeQueues + InService + Completed
             + HeldByDispatcher + AwaitingPut
    /\ \A t \in Tasks : IF t < tid THEN Places(t) + completions[t] >= 1
                        ELSE Places(t) + completions[t] = 0

\* both places the statement leaves out are occupied, after a kill
C1_Witness ==
    /\ held # NoTask
    /\ putTasks # <<>>
    /\ \E n \in Nodes : ~active[n]

\* ---------------------------------------------------------------------- C4
\* C4: in every reachable state each task is in at most one place among the
\* ingest queue, the node queues and the in-service slots (and the
\* dispatcher's hand and the pending puts); a completed task is in none of
\* them, so no stolen task is also serviced by its original node, and no task
\* is completed more than once.
C4_ExclusiveOwnership ==
    \A t \in Tasks :
        /\ Places(t) <= 1
        /\ completions[t] <= 1
        /\ completions[t] = 1 => Places(t) = 0

\* a task was stolen, and a task has been serviced to completion
C4_Witness ==
    /\ migrations > 0
    /\ \E t \in Tasks : completions[t] = 1
    /\ \E n \in Nodes : current[n] # NoTask

\* ---------------------------------------------------------------------- C7
\* C7: under least_loaded and work_stealing every task that leaves the ingest
\* queue for a node is appended to an active node whose queue length before
\* the placement is <= that of every other active node, and among the nodes
\* tied at the minimum it is the one with the smallest identity.
C7_LeastLoaded ==
    [][(/\ policy \in {"least_loaded", "work_stealing"}
        /\ task_queue # <<>>
        /\ task_queue' = Tail(task_queue)
        /\ held' = held)
       => \E n \in Nodes :
            /\ active[n]
            /\ queue' = [queue EXCEPT ![n] = Append(queue[n], Head(task_queue))]
            /\ \A m \in Nodes :
                 active[m] => \/ Len(queue[n]) < Len(queue[m])
                              \/ Len(queue[n]) = Len(queue[m]) /\ n <= m]_vars

\* the first task was placed while all nodes were tied at length 0, and the
\* second went to the next node, then the only one at the minimum
C7_Witness ==
    /\ policy \in {"least_loaded", "work_stealing"}
    /\ tid = 2
    /\ task_queue = <<>>
    /\ migrations = 0
    /\ queue[0] = <<0>>
    /\ queue[1] = <<1>>
    /\ \A n \in Nodes : active[n] /\ completed[n] = 0

\* ---------------------------------------------------------------------- C8
\* C8: under round_robin, the numbers of tasks placed on the active nodes
\* since the policy or the set of active nodes last changed (a policy
\* change, a kill, a revive) differ by at most 1.
C8_RoundRobinBalance ==
    policy = "round_robin" =>
        \A n, m \in Nodes : (active[n] /\ active[m]) => placed[n] - placed[m] <= 1

\* two tasks were placed under round_robin on two active nodes
C8_Witness ==
    /\ policy = "round_robin"
    /\ \A n \in Nodes : active[n]
    /\ SumOver(placed, Nodes) >= 2

\* ---------------------------------------------------------------------- C9
\* C9: no stealing tick that runs under work_stealing while some active node
\* has queue length > 1 and another active node has queue length 0 ends
\* without the migration counter having grown by at least 1.
C9_StealProgress == ~stalled

\* a tick met the imbalance and migrated
C9_Witness == migrations > 0 /\ policy = "work_stealing"

\* ---------------------------------------------------------------------- C2
\* C2: a kill of an active node leaves the node inactive and its queue empty
\* and hands every task of that queue, once each and in order, to a pending
\* put, touching nothing else of the ingest path; no task is ever twice among
\* the ingest queue and the pending puts; and every task in a pending put
\* subsequently appears in the ingest queue.
C2_KillDrains ==
    /\ [][\A nid \in Nodes :
            (active[nid] /\ ~active'[nid]) =>
                /\ queue'[nid] = <<>>
                /\ putTasks' = putTasks \o queue[nid]
                /\ \A t \in Range(queue[nid]) : Count(putTasks', t) = 1
                /\ UNCHANGED <<task_queue, held, current>>]_vars
    /\ [](\A t \in Tasks : Count(task_queue, t) + Count(putTasks, t) <= 1)
    /\ \A t \in Tasks : (Count(putTasks, t) = 1) ~> (Count(task_queue, t) = 1)

\* a node with a queued task was killed: it is inactive, its queue is empty
\* and the drained task waits for its put
C2_Witness ==
    /\ \E n \in Nodes : ~active[n] /\ queue[n] = <<>>
    /\ putTasks # <<>>
    /\ task_queue = <<>>

\* ------------------------------------------------------ Node.steal_tasks
\* steal_tasks(amount) called on node n; the tasks returned go to the caller
StealCall(n, amount) ==
    /\ ~Draining
    /\ LET r == StealTasks(queue[n], active[n], amount)
       IN /\ call' = [node |-> n, amount |-> amount, before |-> queue[n],
                      stolen |-> r[1], made |-> TRUE]
          /\ queue' = [queue EXCEPT ![n] = r[2]]
    /\ UNCHANGED <<tid, manual_burst, task_queue, policy, migrations, latencies,
                   rr_index, held, dpc, active, busy, current, completed, putTasks,
                   completions, stalled, placed>>

\* a fleet whose nodes hold queues of every length up to MaxLen; an inactive
\* node holds none (kill_node clears the queue and push does not fill it)
StealInit ==
    /\ \E lens \in [Nodes -> 0 .. MaxLen], act \in [Nodes -> BOOLEAN] :
         /\ \A n \in Nodes : ~act[n] => lens[n] = 0
         /\ active = act
         /\ queue = [n \in Nodes |-> [i \in 1 .. lens[n] |-> n * MaxLen + i - 1]]
    /\ tid = 0
    /\ manual_burst = FALSE
    /\ task_queue = <<>>
    /\ policy = DEFAULT_POLICY
    /\ migrations = 0
    /\ latencies = 0
    /\ rr_index = 0
    /\ held = NoTask
    /\ dpc = "get"
    /\ busy = [n \in Nodes |-> FALSE]
    /\ current = [n \in Nodes |-> NoTask]
    /\ completed = [n \in Nodes |-> 0]
    /\ putTasks = <<>>
    /\ completions = [t \in Tasks |-> 0]
    /\ stalled = FALSE
    /\ placed = ZeroPlaced
    /\ SurfaceInit
    /\ call = NoCall

StealNext ==
    \E n \in Nodes, amount \in 0 .. MaxAmount :
        StealCall(n, amount) /\ UNCHANGED surfaceVars

StealSpec == StealInit /\ [][StealNext]_vars

\* ---------------------------------------------------------------------- C3
\* k' = min(k, max(0, L-1))
KPrime(k, L) == Min(k, Max(0, L - 1))

\* C3 as stated: steal(k) on a queue of length L returns exactly k' tasks and
\* the node retains max(1, L-k') tasks.
C3_StealSafety_AsStated ==
    call.made =>
        LET L == Len(call.before)
            k == KPrime(call.amount, L)
        IN /\ Len(call.stolen) = k
           /\ Len(queue[call.node]) = Max(1, L - k)

\* C3 as amended: steal(k) on a queue of length L returns exactly
\* k' = min(k, max(0, L-1)) tasks, the last k' of the queue taken from the
\* back, and the node retains the first L-k' tasks: max(1, L-k') of them when
\* L >= 1, none when L = 0.
C3_StealSafety ==
    call.made =>
        LET L == Len(call.before)
            k == KPrime(call.amount, L)
        IN /\ Len(call.stolen) = k
           /\ \A i \in 1 .. k : call.stolen[i] = call.before[L + 1 - i]
           /\ queue[call.node] = SubSeq(call.before, 1, L - k)
           /\ Len(queue[call.node]) = L - k
           /\ L >= 1 => Len(queue[call.node]) = Max(1, L - k)

\* a call that asked for less than it could get, and one cut down to leave one
C3_Witness ==
    /\ call.made
    /\ Len(call.before) = MaxLen
    /\ call.amount = 1
    /\ Len(call.stolen) = 1
    /\ Len(queue[call.node]) = MaxLen - 1

\* ------------------------------------------------------------ the surface
Running == Alive /\ Quiet

\* the command path: connections, ws_handler and the scripted scenario
\* driving the kernel (the broadcaster only reads the state they share)
CommandNext ==
    \/ GenBurst(SurfaceTasks) /\ Running
    \/ GenTraffic(SurfaceTasks) /\ Running
    \/ DispatchPlace /\ Running
    \/ DispatchHold /\ Running
    \/ DispatchResubmit /\ Running
    \/ \E n \in Nodes : NodeStart(n) /\ Running
    \/ \E n \in Nodes : NodeFinish(n) /\ Running
    \/ StealTick /\ Running
    \/ PutStep /\ Running
    \/ \E c \in Clients : Connect(c)
    \/ \E c \in Clients, f \in Frames : WsMessage(c, f)
    \/ \E c \in Clients : Disconnect(c)
    \/ ScenarioBegin
    \/ ScenarioStep

CommandSpec == Init /\ [][CommandNext]_vars

\* the telemetry path: connections, ws_handler and the broadcaster, over a
\* scheduler that receives no tasks
PublisherNext ==
    \/ \E c \in Clients : Connect(c)
    \/ \E c \in Clients, f \in Frames : WsMessage(c, f)
    \/ \E c \in Clients : Disconnect(c)
    \/ BcastTick
    \/ \E ok \in BOOLEAN : BcastSendDone(ok)

PublisherSpec == Init /\ [][PublisherNext]_vars

\* ---------------------------------------------------------------------- C5
\* the frames the claim calls malformed: bad JSON, missing cmd, missing or
\* out-of-range node id, unknown policy value
Malformed(f) ==
    \/ ~f.json
    \/ f.cmd = "None"
    \/ f.cmd \in {"kill", "revive"} /\ (~f.has_id \/ f.id \notin Nodes)
    \/ f.cmd = "policy" /\ f.val \notin Policies

\* C5: a malformed command frame is ignored silently: handling it changes no
\* scheduler, generator or recording state, the connection stays open and
\* its subscriber stays in the subscriber set, so that later commands on the
\* connection are still processed.
C5_MalformedIgnored ==
    [][\A c \in Clients, f \in Frames :
          (Malformed(f) /\ WsMessage(c, f)) =>
              /\ UNCHANGED <<kernelVars, controlVars>>
              /\ c \in conns'
              /\ c \in clients => c \in clients']_vars

\* ---------------------------------------------------------------------- C6
\* C6: in every reachable state the scheduler's active policy is one of
\* round_robin, least_loaded, work_stealing.
C6_PolicyValid == policy \in Policies

\* --------------------------------------------------------------------- C10
\* C10: when a send fails during a broadcast tick the failure does not
\* propagate (the broadcaster does not end), and the tick ends with exactly
\* the subscribers whose send failed removed from the subscriber set and
\* with every remaining subscriber having received the snapshot.
C10_FailureContained ==
    [][bpc = "send" =>
          /\ (dead # {} \/ dead' # {}) => bpc' # "crashed"
          /\ bpc' = "sleep" =>
                /\ clients \ clients' \subseteq dead \cup {sending}
                /\ dead \subseteq clients \ clients'
                /\ clients' \subseteq sent \cup {sending}]_vars

\* --------------------------------------------------------------------- C11
\* C11: at most one scripted scenario runs at a time (one begins only when
\* none is active); a start_scenario command handled while scenario_active
\* is true changes no state, neither when it is handled nor when the task it
\* created runs (no policy change, no burst, no kill or revive is issued by
\* it); and scenario_active is true exactly while a scenario is between its
\* first and last step.
C11_ScenarioExclusive ==
    [][/\ scenario_active' <=> scn' > 0
       /\ (scn = 0 /\ scn' = 1) => ~scenario_active
       /\ (scenario_active /\ spawned' > spawned) =>
              UNCHANGED <<kernelVars, scenario_active, scn>>
       /\ (spawned' < spawned /\ Head(late).active) =>
              UNCHANGED <<kernelVars, scenario_active, scn>>]_vars

\* ----------------------------------------------------- the operator's view
\* the operator's commands as ws_handler applies them to the scheduler and
\* the generator, and the scripted scenario, on a fleet that receives no
\* tasks (the script does not look at them)
OperatorNext ==
    \/ TriggerBurst /\ Quiet
    \/ \E val \in PolicyVals : SetPolicy(val) /\ Quiet
    \/ \E nid \in NodeIds : kill_node(nid) /\ Quiet
    \/ \E nid \in NodeIds : revive_node(nid) /\ Quiet
    \/ SpawnScenario /\ UNCHANGED <<kernelVars, publisherVars, call>>
    \/ ScenarioBegin
    \/ ScenarioStep

\* the event loop runs what is due: a created scenario task starts, and a
\* scenario whose sleep is over goes on
OperatorSpec ==
    /\ Init
    /\ [][OperatorNext]_vars
    /\ SF_vars(ScenarioBegin)
    /\ SF_vars(ScenarioStep)

\* --------------------------------------------------------------------- C12
\* C12: a scenario's steps happen in this order, whatever operator commands
\* interleave: it begins by setting the policy to least_loaded, then
\* triggers the burst, then kills node 0 (leaving it inactive with an empty
\* queue), then revives node 0, then sets the policy to work_stealing; no
\* step is skipped or repeated; a scenario that has started always finishes;
\* and in the step in which scenario_active flips back to false the policy
\* is work_stealing.
C12_ScenarioScript ==
    /\ [][/\ scn' # scn =>
               \/ scn = 0 /\ scn' = 1 /\ scenario_active' /\ policy' = "least_loaded"
               \/ scn = 1 /\ scn' = 2 /\ scenario_active' /\ manual_burst'
               \/ scn = 2 /\ scn' = 3 /\ scenario_active' /\ ~active'[0]
                    /\ queue'[0] = <<>>
               \/ scn = 3 /\ scn' = 4 /\ scenario_active' /\ active'[0]
               \/ scn = 4 /\ scn' = 0 /\ ~scenario_active' /\ policy' = "work_stealing"
          /\ (scenario_active /\ ~scenario_active') =>
                 (scn = 4 /\ policy' = "work_stealing")]_vars
    /\ scenario_active ~> ~scenario_active

\* a scenario has done all its steps but the last, and the operator's
\* commands came in between: another policy was set after the first step and
\* node 0 was killed again after the scenario had revived it
C12_Witness ==
    /\ scenario_active
    /\ scn = 4
    /\ policy = "round_robin"
    /\ ~active[0]

\* ------------------------------------------------------ Scheduler.snapshot
\* latencies are in milliseconds, utilization in tenths of a percent (the
\* units round(.., 3) and round(.., 1) leave)
RecentWindow == 50
P95Percent == 95

\* self.latencies[-50:] if self.latencies else [0]
RecentLats(lats) ==
    IF lats = <<>> THEN <<0>>
    ELSE SubSeq(lats, Max(1, Len(lats) - RecentWindow + 1), Len(lats))

RECURSIVE SumSeq(_)
SumSeq(s) == IF s = <<>> THEN 0 ELSE Head(s) + SumSeq(Tail(s))

\* sorted(s): insertion of each element into the sorted rest
RECURSIVE Insert(_, _)
Insert(x, s) ==
    IF s = <<>> THEN <<x>>
    ELSE IF x <= Head(s) THEN <<x>> \o s
    ELSE <<Head(s)>> \o Insert(x, Tail(s))

RECURSIVE Sorted(_)
Sorted(s) == IF s = <<>> THEN <<>> ELSE Insert(Head(s), Sorted(Tail(s)))

\* mutant: the index is rounded up
P95IndexCeil(len) == (len * P95Percent + 99) \div 100

\* int(len(recent_lats) * 0.95), counted from 0
P95Index(len) == (len * P95Percent) \div 100

\* the latency lists self.latencies may be when it holds n samples: a
\* completion is stamped after the creation, so no sample is negative
LatencyLists(n) == [1 .. n -> 0 .. MaxLatency]

\* snapshot() when self.latencies is lats: the dictionary it returns; raised
\* is TRUE when the p95 index is outside the sorted sample (IndexError)
Snapshot(lats) ==
    LET recent == RecentLats(lats)
        idx == P95Index(Len(recent))
        active_count == Cardinality({n \in Nodes : active[n]})
        busy_count == Cardinality({n \in Nodes : active[n] /\ busy[n]})
    IN [raised |-> recent # <<>> /\ idx >= Len(recent),
        policy |-> policy,
        queue_lengths |-> [i \in 1 .. NumNodes |-> Len(queue[i - 1])],
        node_status |-> [i \in 1 .. NumNodes |-> active[i - 1]],
        completed |-> [i \in 1 .. NumNodes |-> completed[i - 1]],
        migrations |-> migrations,
        avg_latency |-> IF recent # <<>> THEN SumSeq(recent) \div Len(recent) ELSE 0,
        p95_latency |-> IF recent # <<>> /\ idx < Len(recent)
                        THEN Sorted(recent)[idx + 1] ELSE 0,
        utilization |-> IF active_count > 0
                        THEN (busy_count * 1000) \div active_count ELSE 0,
        recording |-> recording,
        scenario_active |-> scenario_active]

\* --------------------------------------------------------------------- C13
\* C13: in every reachable state, whatever the recorded latencies are,
\* snapshot() succeeds (the p95 index is within the latency sample it sorts,
\* for every sample length up to the window of 50) and returns
\* queue_lengths, node_status and completed each of length N, a utilization
\* between 0 and 100 percent (0 when no node is active), and avg_latency and
\* p95_latency that are >= 0 (both 0 when no latency has been recorded).
C13_SnapshotConsistent ==
    /\ \A len \in 1 .. RecentWindow : P95Index(len) < len
    /\ \A lats \in LatencyLists(latencies) :
         LET snap == Snapshot(lats)
         IN /\ ~snap.raised
            /\ Len(snap.queue_lengths) = NumNodes
            /\ Len(snap.node_status) = NumNodes
            /\ Len(snap.completed) = NumNodes
            /\ snap.utilization >= 0 /\ snap.utilization <= 1000
            /\ (\A n \in Nodes : ~active[n]) => snap.utilization = 0
            /\ snap.avg_latency >= 0 /\ snap.p95_latency >= 0
            /\ lats = <<>> => (snap.avg_latency = 0 /\ snap.p95_latency = 0)

\* latencies have been recorded, and a node that was killed while it
\* services a task is busy but inactive next to an active node
C13_Witness ==
    /\ latencies > 0
    /\ \E n, m \in Nodes : ~active[n] /\ busy[n] /\ active[m]
    /\ Snapshot(<<MaxLatency>>).p95_latency = MaxLatency
    /\ Snapshot(<<MaxLatency>>).utilization = 0

\* ---------------------------------------------------------- the recorder
\* toggle_record commands and the broadcaster's ticks, with subscribers
\* coming and going so that a toggle may fall inside a fan-out
RecorderNext ==
    \/ \E c \in Clients : Connect(c)
    \/ \E c \in Clients : Disconnect(c)
    \/ Alive /\ ToggleRecording /\ UNCHANGED <<kernelVars, publisherVars, call>>
    \/ BcastTick
    \/ \E ok \in BOOLEAN : BcastSendDone(ok)

RecorderSpec == Init /\ [][RecorderNext]_vars

\* --------------------------------------------------------------------- C14
\* C14: toggling record on opens the sink with the header row only;
\* toggling it off again returns to the not-recording, sink-closed state,
\* and the sink then holds the header row followed by exactly k data rows,
\* k being the number of broadcast ticks that came to their recording step
\* while recording was on; a row is only ever written to the open sink
\* while recording is on.
C14_RecordingRoundTrip ==
    /\ [](recording <=> csv_file = "open")
    /\ [][/\ (~recording /\ recording') => csv_rows' = <<"header">>
          /\ (recording /\ ~recording') =>
                 /\ csv_file' = "closed"
                 /\ csv_rows' = csv_rows
                 /\ csv_rows = <<"header">> \o [i \in 1 .. ticks_on |-> "row"]
          /\ (csv_rows' # csv_rows /\ recording) =>
                 /\ recording' /\ csv_file = "open" /\ csv_file' = "open"
                 /\ csv_rows' = Append(csv_rows, "row")
          /\ ~recording' => csv_rows' = csv_rows]_vars

\* record was toggled on and off again with two ticks in between, one of
\* them with a subscriber to send to
C14_Witness ==
    /\ ~recording
    /\ csv_file = "closed"
    /\ csv_rows = <<"header", "row", "row">>
    /\ ticks_on = 2
    /\ clients # {}

\* ------------------------------------------------- the kernel, scheduled
\* FailureNext under the scheduling of a running event loop: a created put
\* runs, the dispatcher goes on whenever it can, and a node whose sleep is
\* over goes on (it takes the next task, it finishes the one in service)
ServiceSpec ==
    /\ Init
    /\ [][FailureNext]_vars
    /\ SF_vars(PutStep /\ Quiet)
    /\ WF_vars((DispatchPlace \/ DispatchHold \/ DispatchResubmit) /\ Quiet)
    /\ \A n \in Nodes : SF_vars(NodeStart(n) /\ Quiet)
    /\ \A n \in Nodes : SF_vars(NodeFinish(n) /\ Quiet)

\* --------------------------------------------------------------------- C15
\* C15: a kill of node nid leaves the task nid is servicing in service at
\* nid and does not hand it to the ingest queue or to a pending put; a task
\* in service is nowhere else; it leaves service only by completing at that
\* node, which adds 1 to that node's completed count and records one
\* latency; and it does complete, once, even while the node stays inactive.
C15_KillKeepsInFlight ==
    /\ [][\A nid \in Nodes :
            (active[nid] /\ ~active'[nid] /\ current[nid] # NoTask) =>
                /\ current'[nid] = current[nid]
                /\ busy'[nid]
                /\ Count(putTasks', current[nid]) = 0
                /\ Count(task_queue', current[nid]) = 0]_vars
    /\ [](\A n \in Nodes : current[n] # NoTask =>
              (Places(current[n]) = 1 /\ completions[current[n]] = 0))
    /\ [][\A n \in Nodes :
            (current[n] # NoTask /\ current'[n] # current[n]) =>
                /\ current'[n] = NoTask
                /\ completed'[n] = completed[n] + 1
                /\ completions'[current[n]] = 1
                /\ latencies' = latencies + 1]_vars
    /\ \A t \in Tasks :
          (\E n \in Nodes : current[n] = t /\ ~active[n]) ~> (completions[t] = 1)

\* node 0 was killed while it serviced a task, with another task in its
\* queue: that one waits for its put, the one in service stays
C15_Witness ==
    /\ ~active[0]
    /\ current[0] # NoTask
    /\ busy[0]
    /\ putTasks # <<>>

\* ------------------------------------------------------- the node queues
\* a fleet whose nodes already hold queues of every length up to MaxLen (as
\* in StealInit, with the tasks numbered in the order they entered) and
\* whose ingest queue holds one more task or none, from which the
\* dispatcher places, the nodes service and the stealing loop rebalances
QueueInit ==
    /\ \E lens \in [Nodes -> 0 .. MaxLen], act \in [Nodes -> BOOLEAN] :
         /\ \A n \in Nodes : ~act[n] => lens[n] = 0
         /\ active = act
         /\ queue = [n \in Nodes |-> [i \in 1 .. lens[n] |-> n * MaxLen + i - 1]]
    /\ tid = NumNodes * MaxLen + 1
    /\ manual_burst = FALSE
    /\ task_queue \in {<<>>, <<NumNodes * MaxLen>>}
    /\ policy = DEFAULT_POLICY
    /\ migrations = 0
    /\ latencies = 0
    /\ rr_index = 0
    /\ held = NoTask
    /\ dpc = "get"
    /\ busy = [n \in Nodes |-> FALSE]
    /\ current = [n \in Nodes |-> NoTask]
    /\ completed = [n \in Nodes |-> 0]
    /\ putTasks = <<>>
    /\ completions = [t \in 0 .. (NumNodes * MaxLen) |-> 0]
    /\ stalled = FALSE
    /\ placed = ZeroPlaced
    /\ SurfaceInit
    /\ call = NoCall

QueueNext ==
    \/ DispatchPlace /\ Quiet
    \/ DispatchHold /\ Quiet
    \/ DispatchResubmit /\ Quiet
    \/ \E n \in Nodes : NodeStart(n) /\ Quiet
    \/ \E n \in Nodes : NodeFinish(n) /\ Quiet
    \/ StealTick /\ Quiet

QueueSpec == QueueInit /\ [][QueueNext]_vars

\* --------------------------------------------------------------------- C16
\* a is an initial part of b
IsPrefix(a, b) == Len(a) <= Len(b) /\ a = SubSeq(b, 1, Len(a))

\* C16: a node's queue holds its tasks in the order they entered it, and
\* every step keeps that order: a task enters at the back, a node takes for
\* service the task at the front, and stealing (or anything else that
\* removes a task without servicing it) removes from the back only, leaving
\* the remaining tasks as they were.  So of two tasks a node services, the
\* one that entered its queue first is serviced first.
C16_FifoService ==
    [][\A n \in Nodes :
          /\ (current'[n] # current[n] /\ current'[n] # NoTask) =>
                 /\ queue[n] # <<>>
                 /\ current'[n] = Head(queue[n])
                 /\ queue'[n] = Tail(queue[n])
          /\ \/ /\ queue[n] # <<>>
                /\ queue'[n] = Tail(queue[n])
                /\ current'[n] = Head(queue[n])
             \/ IsPrefix(queue[n], queue'[n])
             \/ IsPrefix(queue'[n], queue[n])]_vars

\* node 0 lost the last task of its full queue to a steal, services its
\* first task and holds the tasks between the two in their order, while the
\* thief services the stolen task
C16_Witness ==
    /\ migrations = 1
    /\ current[0] = 0
    /\ queue[0] = [i \in 1 .. (MaxLen - 2) |-> i]
    /\ current[1] = MaxLen - 1

\* --------------------------------------------------- the stealing loop
\* a scheduler constructed with any of the three policies whose nodes hold
\* queues of every length up to MaxBacklog; the stealing loop ticks, nodes
\* take tasks for service and the operator changes the policy
MigrationInit ==
    /\ \E lens \in [Nodes -> 0 .. MaxBacklog], act \in [Nodes -> BOOLEAN] :
         /\ \A n \in Nodes : ~act[n] => lens[n] = 0
         /\ active = act
         /\ queue = [n \in Nodes |-> [i \in 1 .. lens[n] |-> n * MaxBacklog + i - 1]]
    /\ tid = NumNodes * MaxBacklog
    /\ manual_burst = FALSE
    /\ task_queue = <<>>
    /\ policy \in Policies
    /\ migrations = 0
    /\ latencies = 0
    /\ rr_index = 0
    /\ held = NoTask
    /\ dpc = "get"
    /\ busy = [n \in Nodes |-> FALSE]
    /\ current = [n \in Nodes |-> NoTask]
    /\ completed = [n \in Nodes |-> 0]
    /\ putTasks = <<>>
    /\ completions = [t \in 0 .. (NumNodes * MaxBacklog - 1) |-> 0]
    /\ stalled = FALSE
    /\ placed = ZeroPlaced
    /\ SurfaceInit
    /\ call = NoCall

MigrationNext ==
    \/ StealTick /\ Quiet
    \/ \E n \in Nodes : NodeStart(n) /\ Quiet
    \/ \E val \in PolicyVals : SetPolicy(val) /\ Quiet

MigrationSpec == MigrationInit /\ [][MigrationNext]_vars

\* --------------------------------------------------------------------- C17
\* C17: the migration counter never decreases; a step changes it only
\* while the policy is work_stealing, and then it is a stealing tick: it
\* grows by exactly k >= 1, the number of tasks cut from the back of one
\* active node's queue, no queue of that fleet is longer than the queue cut,
\* and every one of the k tasks is appended to the queue of a node that was
\* active and empty, nothing else being touched.  (So the counter is 0 for
\* as long as the policy has never been work_stealing.)
C17_MigrationCount ==
    [][/\ migrations' >= migrations
       /\ migrations' # migrations =>
            LET k == migrations' - migrations
            IN /\ policy = "work_stealing" /\ policy' = policy
               /\ UNCHANGED <<task_queue, putTasks, held, current, active>>
               /\ \E b \in Nodes :
                    /\ active[b]
                    /\ \A n \in Nodes : active[n] => Len(queue[n]) <= Len(queue[b])
                    /\ Len(queue'[b]) = Len(queue[b]) - k
                    /\ IsPrefix(queue'[b], queue[b])
                    /\ \A n \in Nodes \ {b} :
                         queue'[n] # queue[n] => (active[n] /\ queue[n] = <<>>)
                    /\ SumOver([n \in Nodes |-> IF n = b THEN 0
                                               ELSE Len(queue'[n]) - Len(queue[n])],
                               Nodes) = k
                    /\ \A i \in 1 .. k :
                         \E n \in Nodes \ {b} :
                            Count(queue'[n], queue[b][Len(queue[b]) + 1 - i]) = 1]_vars

\* one tick moved two tasks at once from a queue of MaxBacklog
C17_Witness ==
    /\ migrations = 2
    /\ policy = "work_stealing"
    /\ \E b, n \in Nodes : Len(queue[b]) = MaxBacklog - 2 /\ Len(queue[n]) = 2

\* --------------------------------------------------------------------- C18
\* C18: whatever subscribers connect or disconnect while the publisher is
\* suspended in a send of its fan-out, the publisher finishes the tick and
\* keeps ticking: changes that connection handlers make to the subscriber
\* set never terminate the broadcast loop.
C18_PublisherSurvives == bpc \in {"sleep", "send"}

\* --------------------------------------------------------------------- C19
\* C19: in every reachable state an inactive node has an empty queue; a
\* queue grows only on a node that is active, and no push is dropped: a
\* placement by the dispatcher adds its task to a node queue and a stealing
\* tick leaves the number of queued tasks as it was, under any interleaving
\* of kill and revive with placement and stealing.
C19_InactiveEmpty ==
    /\ [](\A n \in Nodes : ~active[n] => queue[n] = <<>>)
    /\ [][/\ \A n \in Nodes : Len(queue'[n]) > Len(queue[n]) => (active[n] /\ active'[n])
          /\ (task_queue # <<>> /\ task_queue' = Tail(task_queue) /\ held' = held) =>
                 /\ InNodeQueues' = InNodeQueues + 1
                 /\ \E n \in Nodes : queue'[n] = Append(queue[n], Head(task_queue))
          /\ migrations' # migrations => InNodeQueues' = InNodeQueues]_vars

\* after a steal, a node with a queued task was killed: it is inactive and
\* empty, its task waits for its put, and the other node still holds one
C19_Witness ==
    /\ migrations > 0
    /\ putTasks # <<>>
    /\ \E n, m \in Nodes : ~active[n] /\ queue[n] = <<>> /\ active[m] /\ queue[m] # <<>>

\* ------------------------------------------ the kernel, scheduled, any policy
\* the kernel of a scheduler constructed with any of the three policies,
\* with kills and revives, under the scheduling of ServiceSpec
LiveInit ==
    /\ tid = 0
    /\ manual_burst = FALSE
    /\ task_queue = <<>>
    /\ policy \in Policies
    /\ migrations = 0
    /\ latencies = 0
    /\ rr_index = 0
    /\ held = NoTask
    /\ dpc = "get"
    /\ queue = [n \in Nodes |-> <<>>]
    /\ active = [n \in Nodes |-> TRUE]
    /\ busy = [n \in Nodes |-> FALSE]
    /\ current = [n \in Nodes |-> NoTask]
    /\ completed = [n \in Nodes |-> 0]
    /\ putTasks = <<>>
    /\ completions = [t \in Tasks |-> 0]
    /\ stalled = FALSE
    /\ placed = ZeroPlaced
    /\ SurfaceInit
    /\ call = NoCall

LiveNext ==
    \/ GenTraffic(SurfaceTasks) /\ Quiet
    \/ DispatchPlace /\ Quiet
    \/ DispatchHold /\ Quiet
    \/ DispatchResubmit /\ Quiet
    \/ \E n \in Nodes : NodeStart(n) /\ Quiet
    \/ \E n \in Nodes : NodeFinish(n) /\ Quiet
    \/ StealTick /\ Quiet
    \/ PutStep /\ Quiet
    \/ \E nid \in NodeIds : kill_node(nid) /\ Quiet
    \/ \E nid \in NodeIds : revive_node(nid) /\ Quiet

LiveSpec ==
    /\ LiveInit
    /\ [][LiveNext]_vars
    /\ SF_vars(PutStep /\ Quiet)
    /\ WF_vars((DispatchPlace \/ DispatchHold \/ DispatchResubmit) /\ Quiet)
    /\ \A n \in Nodes : SF_vars(NodeStart(n) /\ Quiet)
    /\ \A n \in Nodes : SF_vars(NodeFinish(n) /\ Quiet)

====
